---- MODULE Spec2Model ----
(***************************************************************************)
(* derivative-taylor-finder: expression trees (src/src/function.rs), their *)
(* simplifying constructors, symbolic derivative and numeric evaluation,   *)
(* and the Taylor builder (src/src/taylor.rs).                             *)
(*                                                                         *)
(* f64 is modelled by exact rationals plus the IEEE-754 specials:          *)
(*   [k |-> "q",   n, d]  the rational n/d, d > 0, in lowest terms         *)
(*   [k |-> "inf", n = 1 or -1]  the signed infinities                     *)
(*   [k |-> "nan"]        NaN                                              *)
(*   [k |-> "irr"]        a finite value known to be neither 0 nor 1 whose *)
(*                        magnitude is not tracked: a transcendental       *)
(*                        function at a rational point where its value is  *)
(*                        irrational, or an integer beyond MaxMag          *)
(*   [k |-> "unk"]        a value the model does not track (arithmetic on  *)
(*                        "irr", or a magnitude beyond MaxMag)             *)
(* Rounding and the sign of zero are not modelled.                         *)
(***************************************************************************)
EXTENDS Integers, Sequences, FiniteSets, TLC

\* ------------------------------------------------------------------ bounds
MaxMag == 10000     \* numerators and denominators tracked exactly up to here
MaxSize == 3        \* nodes of an expression a client builds
MaxPrimeSize == 5   \* nodes of an expression a client differentiates
MaxConst == 2       \* numerators and denominators of the constants a client builds
MaxOrder == 2       \* orders a client passes to taylor in Spec
MaxDeepOrder == 22  \* orders passed to taylor in SpecOrders

\* ------------------------------------------------------------------ f64
Abs(i) == IF i < 0 THEN -i ELSE i

RECURSIVE GCD(_, _)
GCD(a, b) == IF b = 0 THEN a ELSE GCD(b, a % b)

NaN == [k |-> "nan", n |-> 0, d |-> 0]
Unk == [k |-> "unk", n |-> 0, d |-> 0]
Irr == [k |-> "irr", n |-> 0, d |-> 0]
Inf(s) == [k |-> "inf", n |-> s, d |-> 0]

\* The rational n/d (d # 0) in lowest terms; Unk beyond the tracked magnitude.
Q(n, d) ==
    LET g == GCD(Abs(n), Abs(d))
        s == IF d < 0 THEN -1 ELSE 1
        nn == (s * n) \div g
        dd == (s * d) \div g
    IN IF Abs(nn) > MaxMag \/ dd > MaxMag THEN Unk
       ELSE [k |-> "q", n |-> nn, d |-> dd]

Zero == Q(0, 1)
One == Q(1, 1)
Sign(v) == IF v.n < 0 THEN -1 ELSE IF v.n > 0 THEN 1 ELSE 0
Tracked(v) == v.k \in {"q", "inf", "nan"}
Opaque(v) == v.k \in {"irr", "unk"}

VNeg(a) ==
    CASE a.k = "q" -> Q(-a.n, a.d)
      [] a.k = "inf" -> Inf(-a.n)
      [] a.k = "irr" -> Irr
      [] OTHER -> a

\* f64::add
VAdd(a, b) ==
    CASE a.k = "nan" \/ b.k = "nan" -> NaN
      [] a = Zero -> b
      [] b = Zero -> a
      [] Opaque(a) \/ Opaque(b) -> Unk
      [] a.k = "inf" /\ b.k = "inf" -> IF a.n = b.n THEN a ELSE NaN
      [] a.k = "inf" -> a
      [] b.k = "inf" -> b
      [] OTHER -> Q(a.n * b.d + b.n * a.d, a.d * b.d)

\* f64::sub
VSub(a, b) == VAdd(a, VNeg(b))

\* f64::mul
VMul(a, b) ==
    CASE a.k = "nan" \/ b.k = "nan" -> NaN
      [] a = One -> b
      [] b = One -> a
      [] (a = Zero /\ b.k = "irr") \/ (a.k = "irr" /\ b = Zero) -> Zero
      [] (a.k = "irr" /\ b.k = "q") \/ (a.k = "q" /\ b.k = "irr") -> Irr
      [] Opaque(a) \/ Opaque(b) -> Unk
      [] a.k = "inf" \/ b.k = "inf" ->
            IF Sign(a) * Sign(b) = 0 THEN NaN ELSE Inf(Sign(a) * Sign(b))
      [] OTHER -> Q(a.n * b.n, a.d * b.d)

\* f64::div: x/0 is a signed infinity, 0/0 and inf/inf are NaN.
VDiv(a, b) ==
    CASE a.k = "nan" \/ b.k = "nan" -> NaN
      [] b = One -> a
      [] a = Zero /\ b.k = "irr" -> Zero
      [] (a.k = "irr" /\ b.k = "q" /\ b # Zero) \/ (a.k = "q" /\ b.k = "irr") -> Irr
      [] Opaque(a) \/ Opaque(b) -> Unk
      [] a.k = "inf" /\ b.k = "inf" -> NaN
      [] a.k = "inf" -> Inf(IF Sign(b) < 0 THEN -a.n ELSE a.n)
      [] b.k = "inf" -> Zero
      [] b.n = 0 -> IF a.n = 0 THEN NaN ELSE Inf(Sign(a))
      [] OTHER -> Q(a.n * b.d, a.d * b.n)

\* b^e for e >= 0, stopping once the magnitude is beyond MaxMag.
RECURSIVE IPow(_, _, _)
IPow(b, e, acc) ==
    IF e = 0 \/ Abs(acc) > MaxMag THEN acc
    ELSE IF b \in {0, 1} THEN b
    ELSE IF b = -1 THEN (IF e % 2 = 0 THEN acc ELSE -acc)
    ELSE IPow(b, e - 1, acc * b)

QPowNat(a, e) ==
    LET pn == IPow(a.n, e, 1)
        pd == IPow(a.d, e, 1)
    IN IF Abs(pn) > MaxMag \/ pd > MaxMag THEN Unk ELSE Q(pn, pd)

\* f64::powf
VPow(a, b) ==
    CASE b = Zero -> One
      [] a = One -> One
      [] a.k = "nan" \/ b.k = "nan" -> NaN
      [] Opaque(a) \/ Opaque(b) -> Unk
      [] b.k = "inf" ->
            IF a.k = "q" /\ Abs(a.n) = a.d THEN One
            ELSE IF (a.k = "q" /\ Abs(a.n) < a.d) = (b.n > 0) THEN Zero
            ELSE Inf(1)
      [] a.k = "inf" ->
            IF Sign(b) < 0 THEN Zero
            ELSE IF a.n < 0 /\ b.d = 1 /\ b.n % 2 = 1 THEN Inf(-1)
            ELSE Inf(1)
      [] b.d = 1 /\ b.n > 0 -> QPowNat(a, b.n)
      [] b.d = 1 /\ a.n = 0 -> Inf(1)
      [] b.d = 1 -> VDiv(One, QPowNat(a, -b.n))
      [] a.n < 0 -> NaN
      [] a.n = 0 -> IF b.n > 0 THEN Zero ELSE Inf(1)
      [] OTHER -> Irr

\* f64::exp
VExp(a) ==
    CASE a.k = "nan" -> NaN
      [] a.k = "inf" -> IF a.n > 0 THEN a ELSE Zero
      [] Opaque(a) -> Unk
      [] a = Zero -> One
      [] OTHER -> Irr

\* f64::ln
VLn(a) ==
    CASE a.k = "nan" -> NaN
      [] a.k = "inf" -> IF a.n > 0 THEN a ELSE NaN
      [] Opaque(a) -> Unk
      [] a.n < 0 -> NaN
      [] a.n = 0 -> Inf(-1)
      [] a = One -> Zero
      [] OTHER -> Irr

\* f64::sin and f64::tan: 0 at 0, irrational at every other rational
VSin(a) ==
    CASE a.k \in {"nan", "inf"} -> NaN
      [] Opaque(a) -> Unk
      [] a = Zero -> Zero
      [] OTHER -> Irr

\* f64::cos
VCos(a) ==
    CASE a.k \in {"nan", "inf"} -> NaN
      [] Opaque(a) -> Unk
      [] a = Zero -> One
      [] OTHER -> Irr

VTan(a) == VSin(a)

\* ------------------------------------------------------------------ Function
\* enum Function: one record per variant, children in a and b.
Constant(v) == [t |-> "Constant", v |-> v]
X == [t |-> "X"]
Add(a, b) == [t |-> "Add", a |-> a, b |-> b]
Subtract(a, b) == [t |-> "Subtract", a |-> a, b |-> b]
Multiply(a, b) == [t |-> "Multiply", a |-> a, b |-> b]
Divide(a, b) == [t |-> "Divide", a |-> a, b |-> b]
Powi(a, b) == [t |-> "Powi", a |-> a, b |-> b]
Powa(a, b) == [t |-> "Powa", a |-> a, b |-> b]
Pow(a, b) == [t |-> "Pow", a |-> a, b |-> b]
Exp(a) == [t |-> "Exp", a |-> a]
Ln(a) == [t |-> "Ln", a |-> a]
Sin(a) == [t |-> "Sin", a |-> a]
Cos(a) == [t |-> "Cos", a |-> a]
Tan(a) == [t |-> "Tan", a |-> a]

IsConstant(f) == f.t = "Constant"
Unary == {"Exp", "Ln", "Sin", "Cos", "Tan"}

\* Function::eval
RECURSIVE eval(_, _)
eval(f, x) ==
    CASE f.t = "Constant" -> f.v
      [] f.t = "X" -> x
      [] f.t = "Add" -> VAdd(eval(f.a, x), eval(f.b, x))
      [] f.t = "Subtract" -> VSub(eval(f.a, x), eval(f.b, x))
      [] f.t = "Multiply" -> VMul(eval(f.a, x), eval(f.b, x))
      [] f.t = "Divide" -> VDiv(eval(f.a, x), eval(f.b, x))
      [] f.t = "Powi" -> VPow(eval(f.a, x), f.b)
      [] f.t = "Powa" -> VPow(f.a, eval(f.b, x))
      [] f.t = "Pow" -> VPow(eval(f.a, x), eval(f.b, x))
      [] f.t = "Exp" -> VExp(eval(f.a, x))
      [] f.t = "Ln" -> VLn(eval(f.a, x))
      [] f.t = "Sin" -> VSin(eval(f.a, x))
      [] f.t = "Cos" -> VCos(eval(f.a, x))
      [] f.t = "Tan" -> VTan(eval(f.a, x))

\* add with `0 + b` returning the left operand
addReturnsSelf(self, other) ==
    IF self = Constant(Zero) THEN self
    ELSE IF other = Constant(Zero) THEN self
    ELSE IF IsConstant(self) /\ IsConstant(other)
         THEN Constant(VAdd(self.v, other.v))
    ELSE Add(self, other)

\* impl Add for Function
add(self, other) ==
    IF self = Constant(Zero) THEN other
    ELSE IF other = Constant(Zero) THEN self
    ELSE IF IsConstant(self) /\ IsConstant(other)
         THEN Constant(VAdd(self.v, other.v))
    ELSE Add(self, other)

\* impl Sub for Function
sub(self, other) ==
    IF self = Constant(Zero) THEN other
    ELSE IF other = Constant(Zero) THEN self
    ELSE IF IsConstant(self) /\ IsConstant(other)
         THEN Constant(VSub(self.v, other.v))
    ELSE Subtract(self, other)

\* mul without the `other == 1` rule
mulNoRightOne(self, other) ==
    IF self = Constant(Zero) \/ other = Constant(Zero) THEN Constant(Zero)
    ELSE IF self = Constant(One) THEN other
    ELSE IF IsConstant(self) /\ IsConstant(other)
         THEN Constant(VMul(self.v, other.v))
    ELSE Multiply(self, other)

\* impl Mul for Function
mul(self, other) ==
    IF self = Constant(Zero) \/ other = Constant(Zero) THEN Constant(Zero)
    ELSE IF self = Constant(One) THEN other
    ELSE IF other = Constant(One) THEN self
    ELSE IF IsConstant(self) /\ IsConstant(other)
         THEN Constant(VMul(self.v, other.v))
    ELSE Multiply(self, other)

\* div without the `self == 0` rule
divNoZeroNumerator(self, other) ==
    IF IsConstant(self) /\ IsConstant(other)
    THEN Constant(VDiv(self.v, other.v))
    ELSE Divide(self, other)

\* impl Div for Function
div(self, other) ==
    IF self = Constant(Zero) THEN Constant(Zero)
    ELSE IF IsConstant(self) /\ IsConstant(other)
         THEN Constant(VDiv(self.v, other.v))
    ELSE Divide(self, other)

\* pow without the `other == 1` rule
powNoExponentOne(self, other) ==
    IF self = Constant(Zero) THEN Constant(Zero)
    ELSE IF self = Constant(One) THEN Constant(One)
    ELSE IF other = Constant(Zero) THEN Constant(One)
    ELSE IF IsConstant(self) /\ IsConstant(other)
         THEN Constant(VPow(self.v, other.v))
    ELSE IF IsConstant(other) THEN Powi(self, other.v)
    ELSE IF IsConstant(self) THEN Powa(self.v, other)
    ELSE Pow(self, other)

\* Function::pow
pow(self, other) ==
    IF self = Constant(Zero) THEN Constant(Zero)
    ELSE IF self = Constant(One) THEN Constant(One)
    ELSE IF other = Constant(Zero) THEN Constant(One)
    ELSE IF other = Constant(One) THEN self
    ELSE IF IsConstant(self) /\ IsConstant(other)
         THEN Constant(VPow(self.v, other.v))
    ELSE IF IsConstant(other) THEN Powi(self, other.v)
    ELSE IF IsConstant(self) THEN Powa(self.v, other)
    ELSE Pow(self, other)

\* Function::powf
powf(self, other) == pow(self, Constant(other))

\* Function::exp, ln, sin, cos, tan
exp(self) == IF IsConstant(self) THEN Constant(VExp(self.v)) ELSE Exp(self)
ln(self) == IF IsConstant(self) THEN Constant(VLn(self.v)) ELSE Ln(self)
sin(self) == IF IsConstant(self) THEN Constant(VSin(self.v)) ELSE Sin(self)
cos(self) == IF IsConstant(self) THEN Constant(VCos(self.v)) ELSE Cos(self)
tan(self) == IF IsConstant(self) THEN Constant(VTan(self.v)) ELSE Tan(self)

\* Function::prime, the Multiply arm
RECURSIVE prime(_)
primeMultiply(f, g) ==
    IF IsConstant(f) /\ IsConstant(g) THEN Constant(Zero)
    ELSE IF IsConstant(f) THEN mul(f, prime(g))
    ELSE IF IsConstant(g) THEN mul(g, prime(f))
    ELSE add(mul(prime(f), g), mul(f, prime(g)))

\* Function::prime, the Divide arm
primeDivide(f, g) ==
    IF IsConstant(f) /\ IsConstant(g) THEN Constant(Zero)
    ELSE IF IsConstant(f) THEN div(f, prime(g))
    ELSE IF IsConstant(g) THEN div(prime(f), g)
    ELSE div(sub(mul(g, prime(f)), mul(f, prime(g))), powf(g, Q(2, 1)))

\* Function::prime, the Pow arm:
\* f.pow(g) * g.prime() * f.ln() + g * f.prime() / f
primePow(f, g) ==
    add(mul(mul(pow(f, g), prime(g)), ln(f)), div(mul(g, prime(f)), f))

\* Function::prime
prime(self) ==
    CASE self.t = "Constant" -> Constant(Zero)
      [] self.t = "X" -> Constant(One)
      [] self.t = "Add" -> add(prime(self.a), prime(self.b))
      [] self.t = "Subtract" -> sub(prime(self.a), prime(self.b))
      [] self.t = "Multiply" -> primeMultiply(self.a, self.b)
      [] self.t = "Divide" -> primeDivide(self.a, self.b)
      [] self.t = "Powi" ->
            mul(mul(Constant(self.b), powf(self.a, VSub(self.b, One))), prime(self.a))
      [] self.t = "Powa" ->
            mul(mul(Powa(self.a, self.b), Constant(VLn(self.a))), prime(self.b))
      [] self.t = "Pow" -> primePow(self.a, self.b)
      [] self.t = "Exp" -> mul(exp(self.a), prime(self.a))
      [] self.t = "Ln" -> div(prime(self.a), self.a)
      [] self.t = "Sin" -> mul(cos(self.a), prime(self.a))
      [] self.t = "Cos" -> mul(mul(Constant(Q(-1, 1)), sin(self.a)), prime(self.a))
      [] self.t = "Tan" -> div(prime(self.a), powf(cos(self.a), Q(2, 1)))

\* Number of nodes of an expression.
RECURSIVE Size(_)
Size(f) ==
    IF f.t \in {"Constant", "X"} THEN 1
    ELSE IF f.t = "Powi" THEN 1 + Size(f.a)
    ELSE IF f.t = "Powa" THEN 1 + Size(f.b)
    ELSE IF f.t \in Unary THEN 1 + Size(f.a)
    ELSE 1 + Size(f.a) + Size(f.b)

\* The f64 payloads of f: its constants, Powi exponents and Powa bases.
RECURSIVE Payloads(_)
Payloads(f) ==
    IF f.t = "Constant" THEN {f.v}
    ELSE IF f.t = "X" THEN {}
    ELSE IF f.t = "Powi" THEN {f.b} \cup Payloads(f.a)
    ELSE IF f.t = "Powa" THEN {f.a} \cup Payloads(f.b)
    ELSE IF f.t \in Unary THEN Payloads(f.a)
    ELSE Payloads(f.a) \cup Payloads(f.b)

\* No constant of f is a value the model does not track.
WellTracked(f) == \A v \in Payloads(f) : v.k # "unk"

\* The constants of f are within the client's range.
SmallConstants(f) ==
    \A v \in Payloads(f) : v.k = "q" => (Abs(v.n) <= MaxConst /\ v.d <= MaxConst)

\* ------------------------------------------------------------------ u64
\* A u64 is four 16-bit limbs, least significant first; the exact product is
\* kept in six limbs (96 bits).
Limb == 65536
U64Limbs == 4
WideLimbs == 6

RECURSIVE MulLimbs(_, _, _, _)
\* limbs * k from limb i on, with carry c; the carry out of the last limb is lost.
MulLimbs(limbs, k, i, c) ==
    IF i > Len(limbs) THEN << >>
    ELSE LET p == limbs[i] * k + c
         IN <<p % Limb>> \o MulLimbs(limbs, k, i + 1, p \div Limb)

OneLimbs(w) == [i \in 1..w |-> IF i = 1 THEN 1 ELSE 0]

\* (2..=n).product() over limbs of width w: wrapping for w = U64Limbs.
RECURSIVE Product(_, _, _)
Product(i, n, acc) ==
    IF i > n THEN acc ELSE Product(i + 1, n, MulLimbs(acc, i, 1, 0))

\* taylor.rs factorial, as the wrapping (release) build computes it
factorial(n) == Product(2, n, OneLimbs(U64Limbs))

\* the mathematical n!
ExactFactorial(n) == Product(2, n, OneLimbs(WideLimbs))

Widen(limbs) == [i \in 1..WideLimbs |-> IF i <= Len(limbs) THEN limbs[i] ELSE 0]

\* the u64 product overflows: a panic where overflow checks are compiled in
Overflows(n) == Widen(factorial(n)) # ExactFactorial(n)

\* `factorial(n) as f64`
U64AsF64(limbs) ==
    IF \A i \in 2..Len(limbs) : limbs[i] = 0
    THEN (IF limbs[1] > MaxMag THEN Irr ELSE Q(limbs[1], 1))
    ELSE Irr

\* ------------------------------------------------------------------ state
VARIABLES
    e,               \* the expression the client holds
    last,            \* the call that has returned and is not yet bound: [op, a, b, r]
    pc,              \* position in taylor: idle, loop, done, panicked, untracked
    order, center, f,             \* taylor's arguments
    polynomial, nth_derivative, n, \* taylor's locals
    divisor          \* factorial(n) of the last iteration

vars == <<e, last, pc, order, center, f, polynomial, nth_derivative, n, divisor>>
taylorVars == <<pc, order, center, f, polynomial, nth_derivative, n, divisor>>

LeafValues == {Zero, One, Q(2, 1)}
Leaves == {X} \cup {Constant(v) : v \in LeafValues}
\* Expressions a client starts from besides the leaves: main.rs's cos(x)^2 and
\* a general power.
Samples == {powf(cos(X), Q(2, 1)), pow(X, div(X, X))}
Centers == {Zero, One}
EvalPoints == {Zero, One, Q(2, 1), Q(-1, 1)}

Call(op, a, b, r) == [op |-> op, a |-> a, b |-> b, r |-> r]
NoCall == [op |-> "none"]

Init ==
    /\ e \in Leaves \cup Samples
    /\ last = NoCall
    /\ pc = "idle"
    /\ order = 0
    /\ center = Zero
    /\ f = e
    /\ polynomial = Constant(Zero)
    /\ nth_derivative = e
    /\ n = 0
    /\ divisor = OneLimbs(U64Limbs)

\* The client's next operands: what it holds, or a fresh leaf.
Operands == Leaves \cup {e}
OperandPairs == {<<e, o>> : o \in Operands} \cup {<<o, e>> : o \in Operands}

\* A constructor call returns r.
Built(op, a, b, r) ==
    /\ pc = "idle"
    /\ last = NoCall
    /\ Size(r) <= MaxSize
    /\ WellTracked(r)
    /\ SmallConstants(r)
    /\ last' = Call(op, a, b, r)
    /\ UNCHANGED <<e, taylorVars>>

AddCall == \E p \in OperandPairs : Built("add", p[1], p[2], add(p[1], p[2]))
SubCall == \E p \in OperandPairs : Built("sub", p[1], p[2], sub(p[1], p[2]))
MulCall == \E p \in OperandPairs : Built("mul", p[1], p[2], mul(p[1], p[2]))
DivCall == \E p \in OperandPairs : Built("div", p[1], p[2], div(p[1], p[2]))
PowCall == \E p \in OperandPairs : Built("pow", p[1], p[2], pow(p[1], p[2]))
ExpCall == Built("exp", e, e, exp(e))
LnCall == Built("ln", e, e, ln(e))
SinCall == Built("sin", e, e, sin(e))
CosCall == Built("cos", e, e, cos(e))
TanCall == Built("tan", e, e, tan(e))

\* e.prime() returns
PrimeCall ==
    /\ pc = "idle"
    /\ last = NoCall
    /\ Size(e) <= MaxPrimeSize
    /\ WellTracked(prime(e))
    /\ last' = Call("prime", e, e, prime(e))
    /\ UNCHANGED <<e, taylorVars>>

\* The client binds the returned expression.
Bind ==
    /\ last # NoCall
    /\ e' = last.r
    /\ last' = NoCall
    /\ UNCHANGED taylorVars

\* taylor(order, center, f): entry
TaylorStart ==
    /\ pc = "idle"
    /\ last = NoCall
    /\ Size(e) <= MaxSize
    /\ \E o \in 0..MaxOrder, c \in Centers :
        /\ order' = o
        /\ center' = c
    /\ f' = e
    /\ polynomial' = Constant(Zero)
    /\ nth_derivative' = e
    /\ n' = 0
    /\ pc' = "loop"
    /\ UNCHANGED <<e, last, divisor>>

\* one iteration of `for n in 0..=order`
TaylorStep ==
    /\ pc = "loop"
    /\ n <= order
    /\ \E checks \in BOOLEAN :
        LET coefficient == VDiv(eval(nth_derivative, center), U64AsF64(factorial(n)))
            nth_term == mul(Constant(coefficient),
                            powf(sub(X, Constant(center)), Q(n, 1)))
            next == prime(nth_derivative)
        IN IF checks /\ Overflows(n)
           THEN /\ pc' = "panicked"
                /\ UNCHANGED <<polynomial, nth_derivative, n, divisor>>
           ELSE IF coefficient.k = "unk" \/ ~WellTracked(next)
           THEN /\ pc' = "untracked"
                /\ UNCHANGED <<polynomial, nth_derivative, n, divisor>>
           ELSE /\ polynomial' = add(polynomial, nth_term)
                /\ nth_derivative' = next
                /\ n' = n + 1
                /\ divisor' = factorial(n)
                /\ pc' = "loop"
    /\ UNCHANGED <<e, last, order, center, f>>

\* the loop is over: taylor returns polynomial
TaylorReturn ==
    /\ pc = "loop"
    /\ n > order
    /\ pc' = "done"
    /\ UNCHANGED <<e, last, order, center, f, polynomial, nth_derivative, n, divisor>>

Next ==
    \/ AddCall \/ SubCall \/ MulCall \/ DivCall \/ PowCall
    \/ ExpCall \/ LnCall \/ SinCall \/ CosCall \/ TanCall
    \/ PrimeCall \/ Bind
    \/ TaylorStart \/ TaylorStep \/ TaylorReturn

Spec == Init /\ [][Next]_vars

\* taylor on low-degree polynomials, for every order up to MaxDeepOrder
DeepFns == {X, Constant(Q(2, 1)), mul(X, X), add(mul(X, X), X)}

InitOrders ==
    /\ e \in DeepFns
    /\ last = NoCall
    /\ pc = "loop"
    /\ order \in 0..MaxDeepOrder
    /\ center \in Centers
    /\ f = e
    /\ polynomial = Constant(Zero)
    /\ nth_derivative = e
    /\ n = 0
    /\ divisor = OneLimbs(U64Limbs)

NextOrders == TaylorStep \/ TaylorReturn

SpecOrders == InitOrders /\ [][NextOrders]_vars

\* ------------------------------------------------------------------ claims
\* Two f64 values are the same number.
SameValue(v, w) == v = w

\* The value the quotient rule gives for Divide(ff, g) at x, from the
\* derivatives of the children.
QuotientRule(ff, g, x) ==
    LET fv == eval(ff, x)
        gv == eval(g, x)
        dfv == eval(prime(ff), x)
        dgv == eval(prime(g), x)
    IN VDiv(VSub(VMul(gv, dfv), VMul(fv, dgv)), VMul(gv, gv))

\* C1: the derivative of every Divide(f, g) node, f or g a bare Constant
\* included, has at every point the value (g*D(f) - f*D(g)) / g^2.
C1_QuotientRule ==
    (last.op = "prime" /\ last.a.t = "Divide") =>
        \A x \in EvalPoints :
            LET want == QuotientRule(last.a.a, last.a.b, x)
                got == eval(last.r, x)
            IN (want.k = "q" /\ Tracked(got)) => SameValue(got, want)

\* The value f^g * (D(g)*ln(f) + g*D(f)/f) at x.
GeneralPowerRule(ff, g, x) ==
    LET fv == eval(ff, x)
        gv == eval(g, x)
        dfv == eval(prime(ff), x)
        dgv == eval(prime(g), x)
    IN VMul(VPow(fv, gv), VAdd(VMul(dgv, VLn(fv)), VDiv(VMul(gv, dfv), fv)))

\* C2: the derivative of every Pow(f, g) node has at every point the value
\* f^g * (D(g)*ln(f) + g*D(f)/f), the factor f^g multiplying both summands.
C2_GeneralPowerRule ==
    (last.op = "prime" /\ last.a.t = "Pow") =>
        \A x \in EvalPoints :
            LET want == GeneralPowerRule(last.a.a, last.a.b, x)
                got == eval(last.r, x)
            IN (want.k = "q" /\ Tracked(got)) => SameValue(got, want)

\* C3: a / b applies in this order: a / Constant(1) is a; Constant(0) / b is
\* Constant(0); two constants fold; otherwise Divide(a, b).
C3_DivisionRules ==
    last.op = "div" =>
        last.r = IF last.b = Constant(One) THEN last.a
                 ELSE IF last.a = Constant(Zero) THEN Constant(Zero)
                 ELSE IF IsConstant(last.a) /\ IsConstant(last.b)
                      THEN Constant(VDiv(last.a.v, last.b.v))
                 ELSE Divide(last.a, last.b)

\* What div does apply, in its order: Constant(0) / b is Constant(0), two
\* constants fold, otherwise Divide(a, b), a / Constant(1) included.
DivisionRulesOfCode ==
    last.op = "div" =>
        last.r = IF last.a = Constant(Zero) THEN Constant(Zero)
                 ELSE IF IsConstant(last.a) /\ IsConstant(last.b)
                      THEN Constant(VDiv(last.a.v, last.b.v))
                 ELSE Divide(last.a, last.b)

\* ---- the polynomial a polynomial expression denotes, as its coefficients
IsNat(v) == v.k = "q" /\ v.d = 1 /\ v.n >= 0

RECURSIVE IsPoly(_)
IsPoly(g) ==
    CASE g.t = "Constant" -> g.v.k = "q"
      [] g.t = "X" -> TRUE
      [] g.t \in {"Add", "Subtract", "Multiply"} -> IsPoly(g.a) /\ IsPoly(g.b)
      [] g.t = "Powi" -> IsPoly(g.a) /\ IsNat(g.b)
      [] OTHER -> FALSE

Coef(p, i) == IF i <= Len(p) THEN p[i] ELSE Zero
Longer(p, q) == IF Len(p) >= Len(q) THEN Len(p) ELSE Len(q)
PAdd(p, q) == [i \in 1..Longer(p, q) |-> VAdd(Coef(p, i), Coef(q, i))]
PSub(p, q) == [i \in 1..Longer(p, q) |-> VSub(Coef(p, i), Coef(q, i))]

RECURSIVE ConvSum(_, _, _, _)
ConvSum(p, q, k, i) ==
    IF i > Len(p) THEN Zero
    ELSE VAdd(IF k - i + 1 \in 1..Len(q) THEN VMul(p[i], q[k - i + 1]) ELSE Zero,
              ConvSum(p, q, k, i + 1))

PMul(p, q) == [k \in 1..(Len(p) + Len(q) - 1) |-> ConvSum(p, q, k, 1)]

RECURSIVE PPow(_, _)
PPow(p, m) == IF m = 0 THEN <<One>> ELSE PMul(p, PPow(p, m - 1))

RECURSIVE Coeffs(_)
Coeffs(g) ==
    CASE g.t = "Constant" -> <<g.v>>
      [] g.t = "X" -> <<Zero, One>>
      [] g.t = "Add" -> PAdd(Coeffs(g.a), Coeffs(g.b))
      [] g.t = "Subtract" -> PSub(Coeffs(g.a), Coeffs(g.b))
      [] g.t = "Multiply" -> PMul(Coeffs(g.a), Coeffs(g.b))
      [] g.t = "Powi" -> PPow(Coeffs(g.a), g.b.n)

\* the derivative of the polynomial p
PDeriv(p) ==
    IF Len(p) <= 1 THEN <<Zero>>
    ELSE [i \in 1..(Len(p) - 1) |-> VMul(Q(i, 1), p[i + 1])]

RECURSIVE PNth(_, _)
PNth(p, m) == IF m = 0 THEN p ELSE PNth(PDeriv(p), m - 1)

RECURSIVE PEvalFrom(_, _, _)
PEvalFrom(p, i, x) ==
    IF i > Len(p) THEN Zero ELSE VAdd(p[i], VMul(x, PEvalFrom(p, i + 1, x)))

PEval(p, x) == PEvalFrom(p, 1, x)

RECURSIVE Fact(_)
Fact(m) == IF m <= 1 THEN 1 ELSE m * Fact(m - 1)

\* the sum over k = 0..m of p^(k)(c)/k! * (x - c)^k
RECURSIVE TaylorSum(_, _, _, _)
TaylorSum(p, m, c, x) ==
    IF m < 0 THEN Zero
    ELSE VAdd(TaylorSum(p, m - 1, c, x),
              VMul(VDiv(PEval(PNth(p, m), c), Q(Fact(m), 1)),
                   VPow(VSub(x, c), Q(m, 1))))

\* C4: taylor(order, c, f) has at every x the value of the sum over
\* n = 0..order of f^(n)(c)/n! * (x - c)^n, f^(n) the n-th derivative of the
\* function f denotes; for a polynomial f of degree <= order it has the value
\* of f at every x. (Stated for the f that are polynomials.)
C4_TaylorPolynomial ==
    (pc = "done" /\ IsPoly(f)) =>
        \A x \in EvalPoints :
            LET want == TaylorSum(Coeffs(f), order, center, x)
                got == eval(polynomial, x)
            IN /\ (want.k = "q" /\ Tracked(got)) => SameValue(got, want)
               /\ (Len(Coeffs(f)) - 1 <= order /\ Tracked(got) /\ eval(f, x).k = "q")
                    => SameValue(got, eval(f, x))

\* C5: for every order and every n in 0..=order, factorial(n) in u64 is the
\* mathematical n!, without overflow or wrap-around, and taylor does not fail.
C5_FactorialExact ==
    /\ pc # "panicked"
    /\ n > 0 => Widen(divisor) = ExactFactorial(n - 1)

\* C6: the derivative of every Subtract(f, g) node has at every point the
\* value of D(f) minus the value of D(g), also when f or g is a constant.
C6_SubtractRule ==
    (last.op = "prime" /\ last.a.t = "Subtract") =>
        \A x \in EvalPoints :
            LET want == VSub(eval(prime(last.a.a), x), eval(prime(last.a.b), x))
                got == eval(last.r, x)
            IN (want.k = "q" /\ Tracked(got)) => SameValue(got, want)

\* C7: taylor(0, c, f) is the constant f(c): the one term (X - c)^0
\* collapses to Constant(1) and Constant(0) plus the term is Constant(f(c)),
\* which evaluates to f(c) at every x, also when f(c) is 0.
C7_OrderZero ==
    (pc = "done" /\ order = 0) =>
        /\ n = 1
        /\ polynomial = Constant(eval(f, center))
        /\ \A x \in EvalPoints : SameValue(eval(polynomial, x), eval(f, center))

C7_Witness ==
    /\ pc = "done"
    /\ order = 0
    /\ ~IsConstant(f)
    /\ eval(f, center) = Zero

\* C8: for non-constant f, f + 0 and 0 + f are f, f * 1 and 1 * f are f,
\* f * 0 and 0 * f are Constant(0) (0 is checked before 1), and two
\* constants add to the folded constant.
C8_Identities ==
    /\ last.op = "add" =>
        /\ (~IsConstant(last.a) /\ last.b = Constant(Zero)) => last.r = last.a
        /\ (last.a = Constant(Zero) /\ ~IsConstant(last.b)) => last.r = last.b
        /\ (IsConstant(last.a) /\ IsConstant(last.b)) =>
                last.r = Constant(VAdd(last.a.v, last.b.v))
    /\ last.op = "mul" =>
        /\ (last.a = Constant(Zero) \/ last.b = Constant(Zero)) =>
                last.r = Constant(Zero)
        /\ (~IsConstant(last.a) /\ last.b = Constant(One)) => last.r = last.a
        /\ (last.a = Constant(One) /\ ~IsConstant(last.b)) => last.r = last.b

C8_Witness ==
    /\ last.op = "mul"
    /\ ~IsConstant(last.a)
    /\ Size(last.a) = MaxSize
    /\ last.b = Constant(One)
    /\ last.r = last.a

\* Every Pow, Powi and Powa node of g is in the form pow builds.
RECURSIVE PowNormal(_)
PowNormal(g) ==
    CASE g.t \in {"Constant", "X"} -> TRUE
      [] g.t = "Pow" ->
            /\ ~IsConstant(g.a) /\ ~IsConstant(g.b)
            /\ PowNormal(g.a) /\ PowNormal(g.b)
      [] g.t = "Powi" ->
            /\ ~IsConstant(g.a) /\ g.b \notin {Zero, One}
            /\ PowNormal(g.a)
      [] g.t = "Powa" ->
            /\ ~IsConstant(g.b) /\ g.a \notin {Zero, One}
            /\ PowNormal(g.b)
      [] g.t \in Unary -> PowNormal(g.a)
      [] OTHER -> PowNormal(g.a) /\ PowNormal(g.b)

\* The expressions a state holds.
Held == {e, f, polynomial, nth_derivative} \cup (IF last = NoCall THEN {} ELSE {last.r})

\* C9: in every expression built from the leaves by the constructors and
\* derivative, a Pow node has no Constant child, a Powi node has a
\* non-Constant base and an exponent other than 0 and 1, and a Powa node has
\* a non-Constant exponent and a base other than 0 and 1.
C9_PowNormalForm == \A g \in Held : PowNormal(g)

C9_Witness ==
    /\ last.op = "prime"
    /\ last.a.t = "Powi"
    /\ last.a.b = Q(2, 1)
    /\ ~IsConstant(last.r)

\* Every Add, Subtract, Multiply and Divide node of g is in the form the
\* constructors build.
RECURSIVE ArithNormal(_)
ArithNormal(g) ==
    CASE g.t \in {"Constant", "X"} -> TRUE
      [] g.t \in {"Add", "Subtract"} ->
            /\ g.a # Constant(Zero) /\ g.b # Constant(Zero)
            /\ ~(IsConstant(g.a) /\ IsConstant(g.b))
            /\ ArithNormal(g.a) /\ ArithNormal(g.b)
      [] g.t = "Multiply" ->
            /\ g.a \notin {Constant(Zero), Constant(One)}
            /\ g.b \notin {Constant(Zero), Constant(One)}
            /\ ~(IsConstant(g.a) /\ IsConstant(g.b))
            /\ ArithNormal(g.a) /\ ArithNormal(g.b)
      [] g.t = "Divide" ->
            /\ g.a # Constant(Zero)
            /\ ~(IsConstant(g.a) /\ IsConstant(g.b))
            /\ ArithNormal(g.a) /\ ArithNormal(g.b)
      [] g.t = "Powi" -> ArithNormal(g.a)
      [] g.t = "Powa" -> ArithNormal(g.b)
      [] g.t = "Pow" -> ArithNormal(g.a) /\ ArithNormal(g.b)
      [] OTHER -> ArithNormal(g.a)

\* C10: in every expression built from the leaves by the constructors and
\* derivative, taylor's repeated derivatives included, no Add, Subtract or
\* Multiply node has a Constant(0) child, no Multiply node a Constant(1)
\* child, no Divide node a Constant(0) numerator, and none of the four has
\* two Constant children.
C10_ArithNormalForm == \A g \in Held : ArithNormal(g)

C10_Witness ==
    /\ pc = "done"
    /\ order = MaxOrder
    /\ polynomial.t = "Add"
    /\ nth_derivative.t \in {"Add", "Subtract", "Multiply", "Divide"}
====
